---------------------------- MODULE Spec2Model ----------------------------
(***************************************************************************)
(* Model of bigquery_etl/query_scheduling/dag.py: the DagDefaultArgs and   *)
(* Dag attrs classes, Dag.add_tasks, Dag.from_dict and Dag.to_airflow_dag. *)
(*                                                                         *)
(* Python objects are modelled with reference semantics where the code     *)
(* depends on it: list objects live in `heap` and a Dag holds the index of *)
(* its task list; Task objects are the ids 1..NumTasks and their mutable   *)
(* dependency state lives in `deps`.  An optional value is a sequence of   *)
(* length 0 or 1.                                                          *)
(***************************************************************************)
EXTENDS Integers, Sequences, FiniteSets, TLC

VARIABLES heap, dags, deps, lastOp, lastRender, cfgOp

vars == <<heap, dags, deps, lastOp, lastRender, cfgOp>>

(***************************************************************************)
(* Bounds of the model.                                                    *)
(***************************************************************************)
MaxLen == 4         \* longest task list add_tasks builds
MaxLists == 4       \* list objects allocated in one run of the lifecycle
MaxRenderLen == 2   \* longest task list of a rendered Dag

\* The Task objects, the Dag variables of the caller and the dependency
\* states a task can be in (0: as constructed, nothing resolved yet).
Tasks == {1, 2, 3}
DagIds == {1, 2}
DepStates == {0, 1}

\* Sequences over S of length at most n.
SeqsUpTo(S, n) == UNION {[1..k -> S] : k \in 0..n}

(***************************************************************************)
(* Python values.  A value is a record tagged with its Python type; `s`   *)
(* holds a str, `n` an int (or a bool as 0/1), `l` a list of str.          *)
(***************************************************************************)
PyNone == [kind |-> "none", s |-> "", n |-> 0, l |-> <<>>]
PyStr(x) == [kind |-> "str", s |-> x, n |-> 0, l |-> <<>>]
PyInt(x) == [kind |-> "int", s |-> "", n |-> x, l |-> <<>>]
PyBool(b) == [kind |-> "bool", s |-> "", n |-> IF b THEN 1 ELSE 0, l |-> <<>>]
PyList(q) == [kind |-> "list", s |-> "", n |-> 0, l |-> q]

\* An optional value: <<>> when absent, <<v>> when present.
Absent == <<>>
Some(v) == <<v>>

(***************************************************************************)
(* External collaborators: Task and the utils predicates.                  *)
(***************************************************************************)
\* Task.task_name: the tasks with an odd id are named "A", the others "B",
\* so that distinct Task objects can carry the same name.
task_name(t) == IF t % 2 = 1 THEN "A" ELSE "B"

is_valid_dag_name(v) == v \in {"bqetl_a", "bqetl_b"}

is_schedule_interval(v) == v \in {"@daily", "0 1 * * *", "1d4h45m"}

is_email(v) == v \in {"a@b.com", "c@d.org"}

is_date_string(v) == v \in {"2020-01-01"}

is_timedelta_string(v) == v \in {"30m", "1h15m", "1d4h45m"}

(***************************************************************************)
(* DagDefaultArgs (attrs class).                                           *)
(***************************************************************************)
\* The attributes in declaration order; attrs runs the validators in it.
DefaultArgsFields ==
    <<"owner", "start_date", "email", "depends_on_past", "retry_delay",
      "email_on_failure", "email_on_retry", "retries">>

\* attr.ib() without a default: a required argument of __init__.
DefaultArgsRequired == {"owner", "start_date"}

\* The defaults of the attr.ib(...) declarations.
DefaultArgsDefaults ==
    [email |-> PyList(<<>>), depends_on_past |-> PyBool(FALSE),
     retry_delay |-> PyStr("30m"), email_on_failure |-> PyBool(TRUE),
     email_on_retry |-> PyBool(TRUE), retries |-> PyInt(2)]

\* Each validator is TRUE when it returns and FALSE when it raises ValueError.
validate_owner(value) == is_email(value.s)

validate_email_any(value) == \E i \in DOMAIN value.l : is_email(value.l[i])

validate_email(value) == \A i \in DOMAIN value.l : is_email(value.l[i])

validate_retry_delay(value) == is_timedelta_string(value.s)

validate_start_date_always(value) == is_date_string(value.s)

validate_start_date(value) ==
    ~(value.kind # "none" /\ ~is_date_string(value.s))

\* Fields of DagDefaultArgs that carry a validator, and its verdict.
DefaultArgsValidated == {"owner", "email", "retry_delay", "start_date"}

DefaultArgsValidator(f, value) ==
    CASE f = "owner" -> validate_owner(value)
      [] f = "email" -> validate_email(value)
      [] f = "retry_delay" -> validate_retry_delay(value)
      [] f = "start_date" -> validate_start_date(value)
      [] OTHER -> TRUE

\* The least index at which the sequence of booleans is TRUE, 0 when there
\* is none: the first check to fail when checks run in attribute order.
FirstTrue(flags) ==
    IF \E i \in DOMAIN flags : flags[i]
    THEN CHOOSE i \in DOMAIN flags :
            flags[i] /\ \A j \in 1..(i - 1) : ~flags[j]
    ELSE 0

\* The least index of DefaultArgsFields whose field is in the set, or 0.
FirstField(fields) ==
    FirstTrue([i \in DOMAIN DefaultArgsFields |->
                  DefaultArgsFields[i] \in fields])

NoInstance == <<>>

\* DagDefaultArgs(**args): args maps every field to an optional value.
\* The result is the exception raised ("" for none), the field it names and
\* the instance the caller receives (none when __init__ raises).
DagDefaultArgs(args) ==
    LET m == FirstField({f \in DefaultArgsRequired : args[f] = Absent})
        self == [f \in DOMAIN args |->
                    IF args[f] = Absent THEN DefaultArgsDefaults[f]
                    ELSE args[f][1]]
        v == FirstField({f \in DefaultArgsValidated :
                            ~DefaultArgsValidator(f, self[f])})
    IN  IF m # 0
        THEN [exc |-> "TypeError", field |-> DefaultArgsFields[m],
              obj |-> NoInstance]
        ELSE IF v # 0
        THEN [exc |-> "ValueError", field |-> DefaultArgsFields[v],
              obj |-> NoInstance]
        ELSE [exc |-> "", field |-> "", obj |-> <<self>>]

(***************************************************************************)
(* Dag (attrs class): validators and __init__.                             *)
(***************************************************************************)
validate_dag_name(value) == is_valid_dag_name(value.s)

validate_schedule_interval(value) == is_schedule_interval(value.s)

\* task_names.count(task_name)
count(task_names, x) ==
    Cardinality({i \in DOMAIN task_names : task_names[i] = x})

\* A slip of the comparison: a name is reported from its third occurrence.
validate_tasks_gt2(value) ==
    LET task_names == [i \in DOMAIN value |-> task_name(value[i])]
    IN  {task_names[i] : i \in {j \in DOMAIN task_names :
                                    count(task_names, task_names[j]) > 2}}

\* Dag.validate_tasks: the set duplicate_task_names; the validator raises
\* ValueError exactly when the set is not empty.
validate_tasks(value) ==
    LET task_names == [i \in DOMAIN value |-> task_name(value[i])]
    IN  {task_names[i] : i \in {j \in DOMAIN task_names :
                                    count(task_names, task_names[j]) > 1}}

\* The validators of Dag.__init__, run in the declaration order of the
\* attributes: name, schedule_interval, tasks (default_args has none).
\* `tasks` is the contents of the list handed in.
DagValidate(name, schedule_interval, tasks) ==
    IF ~validate_dag_name(name)
    THEN [exc |-> "ValueError", field |-> "name", reported |-> {}]
    ELSE IF ~validate_schedule_interval(schedule_interval)
    THEN [exc |-> "ValueError", field |-> "schedule_interval",
          reported |-> {}]
    ELSE IF validate_tasks(tasks) # {}
    THEN [exc |-> "ValueError", field |-> "tasks",
          reported |-> validate_tasks(tasks)]
    ELSE [exc |-> "", field |-> "", reported |-> {}]

\* The list object every Dag built without `tasks` receives: attr.ib([])
\* evaluates [] once, so the default is one shared object.
DefaultList == 1

(***************************************************************************)
(* Dag.to_airflow_dag.                                                     *)
(***************************************************************************)
\* The outcome of one Task.with_dependencies call is an input of the model:
\* a dependency state the call leaves in the task, or WireFail when the
\* call raises.
WireFail == Cardinality(DepStates)
WireOutcomes == DepStates \cup {WireFail}

\* task.with_dependencies(client, dag_collection) returning normally: the
\* task's dependency state becomes what the call resolved.
with_dependencies(t, resolved, d) == [d EXCEPT ![t] = resolved]

\* dag_template.render(args), args = self.__dict__: the text shows every
\* field of the Dag and, for each task of the list, its name and its
\* dependency state at the time of rendering.
Render(self, tasks, d) ==
    [name |-> self.name, schedule_interval |-> self.schedule_interval,
     default_args |-> self.default_args,
     tasks |-> [i \in DOMAIN tasks |->
                  [task_name |-> task_name(tasks[i]),
                   dependencies |-> d[tasks[i]]]]]

WireEvent(t, ok) == [ev |-> "with_dependencies", task |-> t, ok |-> ok]
RenderEvent == [ev |-> "render", task |-> 0, ok |-> TRUE]

\* The loop `for task in args["tasks"]: task.with_dependencies(...)` from
\* position i on: it stops at the first call that raises.
RECURSIVE WireFrom(_, _, _, _, _)
WireFrom(i, tasks, out, d, trace) ==
    IF i > Len(tasks)
    THEN [exc |-> "", task |-> 0, deps |-> d, trace |-> trace]
    ELSE IF out[i] = WireFail
    THEN [exc |-> "DependencyWiringError", task |-> tasks[i], deps |-> d,
          trace |-> Append(trace, WireEvent(tasks[i], FALSE))]
    ELSE WireFrom(i + 1, tasks, out, with_dependencies(tasks[i], out[i], d),
                  Append(trace, WireEvent(tasks[i], TRUE)))

\* A slip: a failing wiring call is swallowed and the template rendered.
to_airflow_dag_swallow(self, tasks, out, d) ==
    LET w == WireFrom(1, tasks, out, d, <<>>)
    IN  [exc |-> "", task |-> 0, deps |-> w.deps,
         trace |-> Append(w.trace, RenderEvent),
         text |-> <<Render(self, tasks, w.deps)>>]

\* A slip: the template is rendered before the wiring loop runs.
to_airflow_dag_render_first(self, tasks, out, d) ==
    LET w == WireFrom(1, tasks, out, d, <<>>)
    IN  [exc |-> w.exc, task |-> w.task, deps |-> w.deps,
         trace |-> <<RenderEvent>> \o w.trace,
         text |-> IF w.exc = "" THEN <<Render(self, tasks, d)>> ELSE <<>>]

\* Dag.to_airflow_dag(client, dag_collection) on the Dag `self` whose list
\* holds `tasks`, with the wiring outcomes `out` (one per position) and the
\* dependency states `d` before the call.
to_airflow_dag(self, tasks, out, d) ==
    LET w == WireFrom(1, tasks, out, d, <<>>)
    IN  IF w.exc # ""
        THEN [exc |-> w.exc, task |-> w.task, deps |-> w.deps,
              trace |-> w.trace, text |-> <<>>]
        ELSE [exc |-> "", task |-> 0, deps |-> w.deps,
              trace |-> Append(w.trace, RenderEvent),
              text |-> <<Render(self, tasks, w.deps)>>]

(***************************************************************************)
(* cattr.Converter().structure, as Dag.from_dict uses it.  A field of type *)
(* str, int or bool is converted by calling the type on the raw value; a   *)
(* List[str] by iterating the raw value; an attrs class by converting the  *)
(* entries present in the raw mapping and calling the class.               *)
(***************************************************************************)
Digits == <<"0", "1", "2", "3", "4", "5", "6", "7", "8", "9">>

\* str(n) of an int.
RECURSIVE IntToStr(_)
IntToStr(n) ==
    IF n < 0 THEN "-" \o IntToStr(-n)
    ELSE IF n < 10 THEN Digits[n + 1]
    ELSE IntToStr(n \div 10) \o Digits[(n % 10) + 1]

\* The ints whose decimal literal the model can meet.
Literals == -9..99

\* str(obj)
ToStr(v) ==
    CASE v.kind = "str" -> v.s
      [] v.kind = "none" -> "None"
      [] v.kind = "int" -> IntToStr(v.n)
      [] v.kind = "bool" -> IF v.n = 1 THEN "True" ELSE "False"
      [] v.kind = "list" -> "[...]"

Converted(v) == [exc |-> "", v |-> v]
Raised(exc) == [exc |-> exc, v |-> PyNone]

\* int(obj): a str must be a decimal literal (ValueError otherwise); None
\* and a list are no numbers (TypeError).
ToInt(v) ==
    CASE v.kind = "int" -> Converted(v)
      [] v.kind = "bool" -> Converted(PyInt(v.n))
      [] v.kind = "str" ->
            IF \E n \in Literals : IntToStr(n) = v.s
            THEN Converted(PyInt(CHOOSE n \in Literals : IntToStr(n) = v.s))
            ELSE Raised("ValueError")
      [] v.kind \in {"none", "list"} -> Raised("TypeError")

\* bool(obj): the truth value.
ToBool(v) ==
    CASE v.kind = "bool" -> PyBool(v.n = 1)
      [] v.kind = "int" -> PyBool(v.n # 0)
      [] v.kind = "str" -> PyBool(v.s # "")
      [] v.kind = "list" -> PyBool(v.l # <<>>)
      [] v.kind = "none" -> PyBool(FALSE)

\* List[str]: [str(e) for e in obj]; None, an int and a bool are not
\* iterable (TypeError).  A raw str, iterated per character, is not among
\* the raw values the model draws.
ToListOfStr(v) ==
    CASE v.kind = "list" -> Converted(v)
      [] v.kind \in {"none", "int", "bool"} -> Raised("TypeError")

structure(type, v) ==
    CASE type = "str" -> Converted(PyStr(ToStr(v)))
      [] type = "int" -> ToInt(v)
      [] type = "bool" -> Converted(ToBool(v))
      [] type = "list_str" -> ToListOfStr(v)

\* The annotations of the DagDefaultArgs attributes.
DefaultArgsTypes ==
    [owner |-> "str", start_date |-> "str", email |-> "list_str",
     depends_on_past |-> "bool", retry_delay |-> "str",
     email_on_failure |-> "bool", email_on_retry |-> "bool",
     retries |-> "int"]

\* A raw value where a mapping is expected: kind "map" with the entries m
\* (every known key mapped to an optional raw value), or kind "none"/"str".
NoEntries == [f \in DOMAIN DefaultArgsTypes |-> Absent]
RawMap(m) == [kind |-> "map", m |-> m]
RawOther(kind) == [kind |-> kind, m |-> NoEntries]

\* structure(raw, DagDefaultArgs): indexing a raw value that is no mapping
\* raises TypeError; the entries present are converted in attribute order,
\* the first failing conversion raises; then DagDefaultArgs(**converted).
structure_DagDefaultArgs(raw) ==
    IF raw.kind # "map"
    THEN [exc |-> "TypeError", field |-> "", obj |-> NoInstance]
    ELSE
        LET conv == [f \in DOMAIN DefaultArgsTypes |->
                        IF raw.m[f] = Absent THEN Converted(PyNone)
                        ELSE structure(DefaultArgsTypes[f], raw.m[f][1])]
            b == FirstField({f \in DOMAIN conv : conv[f].exc # ""})
        IN  IF b # 0
            THEN [exc |-> conv[DefaultArgsFields[b]].exc,
                  field |-> DefaultArgsFields[b], obj |-> NoInstance]
            ELSE DagDefaultArgs(
                    [f \in DOMAIN DefaultArgsTypes |->
                        IF raw.m[f] = Absent THEN Absent
                        ELSE <<conv[f].v>>])

\* The body of a DAG entry: kind "map" with optional schedule_interval and
\* default_args entries, or a value that is no mapping.
RawBody(schedule_interval, default_args) ==
    [kind |-> "map", schedule_interval |-> schedule_interval,
     default_args |-> default_args]
RawBodyOther(kind) ==
    [kind |-> kind, schedule_interval |-> Absent, default_args |-> Absent]

NoDag == <<>>

\* converter.structure({"name": name, **body}, Dag) for a body that is a
\* mapping: name and schedule_interval through str, default_args through
\* structure_DagDefaultArgs, then Dag(**converted) with the default task
\* list, whose contents are default_tasks.
structure_Dag(name, body, default_tasks) ==
    LET da == IF body.default_args = Absent
              THEN [exc |-> "", field |-> "", obj |-> NoInstance]
              ELSE structure_DagDefaultArgs(body.default_args[1])
        n == structure("str", PyStr(name)).v
        si == IF body.schedule_interval = Absent THEN PyNone
              ELSE structure("str", body.schedule_interval[1]).v
        r == DagValidate(n, si, default_tasks)
    IN  IF da.exc # ""
        THEN [exc |-> da.exc, field |-> "default_args", dag |-> NoDag]
        ELSE IF body.schedule_interval = Absent
        THEN [exc |-> "TypeError", field |-> "schedule_interval",
              dag |-> NoDag]
        ELSE IF body.default_args = Absent
        THEN [exc |-> "TypeError", field |-> "default_args", dag |-> NoDag]
        ELSE IF r.exc # ""
        THEN [exc |-> r.exc, field |-> r.field, dag |-> NoDag]
        ELSE [exc |-> "", field |-> "",
              dag |-> <<[name |-> n, schedule_interval |-> si,
                         default_args |-> da.obj[1],
                         tasks |-> DefaultList]>>]

\* A slip of the key-count test: only the empty mapping is refused.
from_dict_lt1(d, default_tasks) ==
    IF Cardinality(DOMAIN d) < 1
    THEN [exc |-> "DagParseException", cause |-> "", tried |-> FALSE,
          dag |-> NoDag]
    ELSE
        LET name == CHOOSE k \in DOMAIN d : TRUE
            r == IF d[name].kind # "map"
                 THEN [exc |-> "TypeError", field |-> "", dag |-> NoDag]
                 ELSE structure_Dag(name, d[name], default_tasks)
        IN  IF r.exc = "TypeError"
            THEN [exc |-> "DagParseException", cause |-> "TypeError",
                  tried |-> TRUE, dag |-> NoDag]
            ELSE [exc |-> r.exc, cause |-> "", tried |-> TRUE,
                  dag |-> r.dag]

\* Dag.from_dict(d).  d maps its top-level keys to bodies.  `tried` tells
\* whether the try block (re-shaping and converter.structure) was entered;
\* `cause` is the exception the except clause caught.  Only TypeError is
\* caught; any other exception leaves from_dict as it is.
from_dict(d, default_tasks) ==
    IF Cardinality(DOMAIN d) # 1
    THEN [exc |-> "DagParseException", cause |-> "", tried |-> FALSE,
          dag |-> NoDag]
    ELSE
        LET name == CHOOSE k \in DOMAIN d : TRUE
            r == IF d[name].kind # "map"
                 THEN [exc |-> "TypeError", field |-> "", dag |-> NoDag]
                 ELSE structure_Dag(name, d[name], default_tasks)
        IN  IF r.exc = "TypeError"
            THEN [exc |-> "DagParseException", cause |-> "TypeError",
                  tried |-> TRUE, dag |-> NoDag]
            ELSE [exc |-> r.exc, cause |-> "", tried |-> TRUE,
                  dag |-> r.dag]

(***************************************************************************)
(* The Dag lifecycle: construction, add_tasks, to_airflow_dag.             *)
(***************************************************************************)
DagNames == {"bqetl_a", "etl_a"}
ScheduleIntervals == {"@daily", "daily"}

\* The lists callers hand to Dag(...) and to add_tasks: empty, one task,
\* two tasks with different names, two tasks with the same name.
TaskLists == {<<>>, <<1>>, <<2>>, <<3>>, <<1, 2>>, <<1, 3>>}

\* The DagDefaultArgs instance handed to every Dag(...) call of the lifecycle.
TheDefaultArgs ==
    DagDefaultArgs(
        [owner |-> Some(PyStr("a@b.com")),
         start_date |-> Some(PyStr("2020-01-01")),
         email |-> Absent, depends_on_past |-> Absent,
         retry_delay |-> Absent, email_on_failure |-> Absent,
         email_on_retry |-> Absent, retries |-> Absent]).obj[1]

NoOp ==
    [op |-> "", dag |-> 0, exc |-> "", field |-> "", reported |-> {},
     value |-> <<>>, prior |-> 0, priorSeq |-> <<>>, new |-> <<>>,
     task |-> 0, trace |-> <<>>, text |-> <<>>, wired |-> <<>>,
     prev |-> <<>>]

NoArgs == NoEntries
NoRes ==
    [exc |-> "", cause |-> "", field |-> "", tried |-> FALSE,
     obj |-> NoInstance, dag |-> NoDag]
NoCfg == [phase |-> "idle", call |-> "", args |-> NoArgs, d |-> <<>>,
          res |-> NoRes]

Init ==
    /\ heap = <<(<<>>)>>
    /\ dags = [d \in DagIds |-> <<>>]
    /\ deps = [t \in Tasks |-> 0]
    /\ lastOp = NoOp
    /\ lastRender = <<>>
    /\ cfgOp = NoCfg

\* Dag(name, schedule_interval, default_args[, tasks]) bound to the free
\* slot d.  `tasks` is absent or the contents of a fresh list of the caller;
\* the Dag keeps the list object it is given, without copying it.
Construct(d, name, schedule_interval, tasks) ==
    LET ref == IF tasks = Absent THEN DefaultList ELSE Len(heap) + 1
        value == IF tasks = Absent THEN heap[DefaultList] ELSE tasks[1]
        r == DagValidate(PyStr(name), PyStr(schedule_interval), value)
    IN  /\ dags[d] = <<>>
        /\ tasks # Absent => Len(heap) < MaxLists
        /\ IF r.exc = ""
           THEN /\ heap' = IF tasks = Absent THEN heap
                           ELSE Append(heap, value)
                /\ dags' = [dags EXCEPT ![d] =
                              <<[name |-> PyStr(name),
                                 schedule_interval |-> PyStr(schedule_interval),
                                 default_args |-> TheDefaultArgs,
                                 tasks |-> ref]>>]
           ELSE UNCHANGED <<heap, dags>>
        /\ lastOp' = [NoOp EXCEPT !.op = "Dag", !.dag = d, !.exc = r.exc,
                                  !.field = r.field,
                                  !.reported = r.reported, !.value = value]
        /\ UNCHANGED <<deps, lastRender, cfgOp>>

\* A slip: the new tasks are appended to the installed list in place.
add_tasks_in_place(d, tasks) ==
    LET prior == dags[d][1].tasks
        value == heap[prior] \o tasks
        reported == validate_tasks(value)
    IN  /\ dags[d] # <<>>
        /\ Len(heap) < MaxLists
        /\ Len(value) <= MaxLen
        /\ heap' = [heap EXCEPT ![prior] = value]
        /\ lastOp' = [NoOp EXCEPT
                        !.op = "add_tasks", !.dag = d,
                        !.exc = IF reported # {} THEN "ValueError" ELSE "",
                        !.field = IF reported # {} THEN "tasks" ELSE "",
                        !.reported = reported, !.value = value,
                        !.prior = prior, !.priorSeq = heap[prior],
                        !.new = tasks]
        /\ UNCHANGED <<dags, deps, lastRender, cfgOp>>

\* Dag.add_tasks(tasks): self.tasks = self.tasks.copy() + tasks installs a
\* fresh list, and only then validate_tasks runs over it; when it raises,
\* the assignment has already happened.
add_tasks(d, tasks) ==
    LET prior == dags[d][1].tasks
        value == heap[prior] \o tasks
        reported == validate_tasks(value)
    IN  /\ dags[d] # <<>>
        /\ Len(heap) < MaxLists
        /\ Len(value) <= MaxLen
        /\ heap' = Append(heap, value)
        /\ dags' = [dags EXCEPT ![d] = <<[@[1] EXCEPT !.tasks = Len(heap) + 1]>>]
        /\ lastOp' = [NoOp EXCEPT
                        !.op = "add_tasks", !.dag = d,
                        !.exc = IF reported # {} THEN "ValueError" ELSE "",
                        !.field = IF reported # {} THEN "tasks" ELSE "",
                        !.reported = reported, !.value = value,
                        !.prior = prior, !.priorSeq = heap[prior],
                        !.new = tasks]
        /\ UNCHANGED <<deps, lastRender, cfgOp>>

\* lastRender remembers the latest call that returned text: the Dag, its
\* fields, the text and the dependency states the wiring left in its tasks.
\* dag.to_airflow_dag(client, dag_collection); `out` gives, per position
\* of the task list, what that task's with_dependencies call does.
ToAirflowDag(d, out) ==
    LET self == dags[d][1]
        tasks == heap[self.tasks]
        r == to_airflow_dag(self, tasks, out, deps)
        wired == [i \in DOMAIN tasks |-> r.deps[tasks[i]]]
    IN  /\ dags[d] # <<>>
        /\ deps' = r.deps
        /\ lastOp' = [NoOp EXCEPT !.op = "to_airflow_dag", !.dag = d,
                                  !.exc = r.exc, !.task = r.task,
                                  !.value = tasks,
                                  !.trace = r.trace, !.text = r.text,
                                  !.wired = wired, !.prev = lastRender]
        /\ lastRender' = IF r.exc = ""
                         THEN <<[dag |-> d, self |-> self,
                                 text |-> r.text[1], wired |-> wired]>>
                         ELSE lastRender
        /\ UNCHANGED <<heap, dags, cfgOp>>

Next ==
    \/ \E d \in DagIds, name \in DagNames,
          schedule_interval \in ScheduleIntervals,
          tasks \in {Absent} \cup {<<q>> : q \in TaskLists} :
            Construct(d, name, schedule_interval, tasks)
    \/ \E d \in DagIds, tasks \in TaskLists : add_tasks(d, tasks)

Spec == Init /\ [][Next]_vars

(***************************************************************************)
(* Properties of the lifecycle.                                            *)
(***************************************************************************)
\* Two positions of the sequence hold tasks with the same name.
HasRepeatedName(tasks) ==
    \E i, j \in DOMAIN tasks :
        i # j /\ task_name(tasks[i]) = task_name(tasks[j])

TaskNames == {task_name(t) : t \in Tasks}

\* The names that occur at more than one position of the sequence.
NamesOccurringTwice(tasks) ==
    {x \in TaskNames :
        \E i, j \in DOMAIN tasks :
            i < j /\ task_name(tasks[i]) = x /\ task_name(tasks[j]) = x}

\* The contents of the task list Dag d holds.
TasksOf(d) == heap[dags[d][1].tasks]

\* The last operation ran the tasks validator over lastOp.value.
TasksValidatorRan ==
    \/ lastOp.op = "add_tasks"
    \/ lastOp.op = "Dag" /\ lastOp.field \notin {"name", "schedule_interval"}

\* C1: add_tasks is atomic: when the valid sequence S of a Dag followed by
\* the new tasks N repeats a task name, add_tasks(N) fails and the Dag's
\* task sequence afterwards is exactly S.
C1_AddTasksAtomic ==
    (/\ lastOp.op = "add_tasks"
     /\ ~HasRepeatedName(lastOp.priorSeq)
     /\ HasRepeatedName(lastOp.priorSeq \o lastOp.new))
    => (lastOp.exc = "ValueError" /\ TasksOf(lastOp.dag) = lastOp.priorSeq)

\* C2: in every state reached by a successful construction followed by any
\* add_tasks calls, no two tasks of a Dag's task sequence share a name.
C2_NoDuplicateTaskNames ==
    \A d \in DagIds : dags[d] # <<>> => ~HasRepeatedName(TasksOf(d))

\* C3: the tasks validator accepts a sequence exactly when no task name
\* occurs twice in it, and when it rejects, the names it reports are exactly
\* the names occurring more than once.
C3_ValidatorReportsExactDuplicates ==
    TasksValidatorRan =>
        /\ lastOp.exc = "" <=> ~HasRepeatedName(lastOp.value)
        /\ lastOp.exc # "" =>
              /\ lastOp.exc = "ValueError"
              /\ lastOp.reported = NamesOccurringTwice(lastOp.value)

\* A rejection that reports two duplicated names in one error, on a
\* sequence that also holds both names more than once.
C3_Witness ==
    /\ TasksValidatorRan
    /\ lastOp.exc = "ValueError"
    /\ Cardinality(lastOp.reported) = 2
    /\ Len(lastOp.value) >= 4

\* C10: add_tasks, failing or not, leaves every existing list object with
\* its contents (so does every other operation), and installs in the Dag a
\* new list object holding the prior contents followed by the new tasks.
C10_PriorSequenceNotMutated ==
    [][/\ \A l \in 1..Len(heap) : heap'[l] = heap[l]
       /\ lastOp'.op = "add_tasks" =>
            LET d == lastOp'.dag
            IN  /\ dags'[d][1].tasks \notin 1..Len(heap)
                /\ heap'[dags'[d][1].tasks] = TasksOf(d) \o lastOp'.new]_vars

\* add_tasks with a non-empty list has run on a Dag that held the shared
\* default list while the other Dag still holds it, and it is still empty.
C10_Witness ==
    /\ lastOp.op = "add_tasks"
    /\ lastOp.new # <<>>
    /\ lastOp.prior = DefaultList
    /\ \E d \in DagIds :
          /\ d # lastOp.dag
          /\ dags[d] # <<>>
          /\ dags[d][1].tasks = DefaultList
          /\ TasksOf(d) = <<>>

(***************************************************************************)
(* Rendering: a Dag whose task list is any list the lifecycle can leave    *)
(* installed (add_tasks installs the combined list even when it raises),   *)
(* rendered any number of times.                                           *)
(***************************************************************************)
InitRender ==
    /\ \E tasks \in SeqsUpTo(Tasks, MaxRenderLen) :
          /\ heap = <<(<<>>), tasks>>
          /\ dags = [d \in DagIds |->
                       IF d = 1
                       THEN <<[name |-> PyStr("bqetl_a"),
                               schedule_interval |-> PyStr("@daily"),
                               default_args |-> TheDefaultArgs,
                               tasks |-> 2]>>
                       ELSE <<>>]
    /\ deps = [t \in Tasks |-> 0]
    /\ lastOp = NoOp
    /\ lastRender = <<>>
    /\ cfgOp = NoCfg

NextRender ==
    \E d \in DagIds :
        /\ dags[d] # <<>>
        /\ \E out \in [1..Len(heap[dags[d][1].tasks]) -> WireOutcomes] :
              ToAirflowDag(d, out)

SpecRender == InitRender /\ [][NextRender]_vars

(***************************************************************************)
(* Properties of rendering.                                                *)
(***************************************************************************)
\* C6: the template is rendered only after the wiring call of every task of
\* the list has returned normally, in list order; when a wiring call fails
\* no text is returned, the template is not rendered, and the caller
\* receives that failure, of that task.
C6_RenderOnlyAfterAllWired ==
    lastOp.op = "to_airflow_dag" =>
        LET tr == lastOp.trace
            tasks == lastOp.value
        IN  /\ \A p \in DOMAIN tr :
                  tr[p].ev = "render" =>
                      /\ p = Len(tasks) + 1
                      /\ \A i \in DOMAIN tasks :
                            tr[i] = WireEvent(tasks[i], TRUE)
            /\ lastOp.text # <<>> =>
                  /\ lastOp.exc = ""
                  /\ \E p \in DOMAIN tr : tr[p].ev = "render"
            /\ \A p \in DOMAIN tr :
                  ~tr[p].ok =>
                      /\ lastOp.text = <<>>
                      /\ lastOp.exc = "DependencyWiringError"
                      /\ lastOp.task = tr[p].task
                      /\ \A q \in DOMAIN tr : tr[q].ev # "render"
            /\ lastOp.exc = "" => lastOp.text # <<>>

\* A render call in which the first task was wired and the second failed.
C6_Witness ==
    /\ lastOp.op = "to_airflow_dag"
    /\ lastOp.exc = "DependencyWiringError"
    /\ Len(lastOp.trace) = 2
    /\ lastOp.trace[1].ok
    /\ lastOp.text = <<>>

\* The last call returned text, and an earlier call on the same Dag, with
\* the same fields, had returned text too.
RenderedAgain ==
    /\ lastOp.op = "to_airflow_dag"
    /\ lastOp.exc = ""
    /\ lastOp.prev # <<>>
    /\ lastOp.prev[1].dag = lastOp.dag
    /\ lastOp.prev[1].self = dags[lastOp.dag][1]

Opt(S) == {Absent} \cup {<<v>> : v \in S}

\* Keyword arguments of a direct DagDefaultArgs(...) call, each of the
\* declared type (start_date may also be None, retries negative).
DirectArgs ==
    [owner : Opt({PyStr("a@b.com"), PyStr("nobody")}),
     start_date : Opt({PyNone, PyStr("2020-01-01"), PyStr("01/01/2020")}),
     email : Opt({PyList(<<"c@d.org">>), PyList(<<"a@b.com", "nobody">>)}),
     depends_on_past : Opt({PyBool(TRUE)}),
     retry_delay : Opt({PyStr("1h15m"), PyStr("30")}),
     email_on_failure : {Absent},
     email_on_retry : Opt({PyBool(FALSE)}),
     retries : Opt({PyInt(0), PyInt(-1)})]

\* default_args entries of a raw configuration: values as a YAML file can
\* give them, of the declared type or not.
RawDefaultArgs ==
    {RawOther("none"), RawOther("str")} \cup
    {RawMap(m) : m \in
        [owner : Opt({PyStr("a@b.com"), PyInt(5)}),
         start_date : Opt({PyNone, PyStr("2020-01-01")}),
         email : Opt({PyList(<<"c@d.org">>), PyInt(5)}),
         depends_on_past : Opt({PyStr("yes")}),
         retry_delay : Opt({PyStr("30")}),
         email_on_failure : {Absent},
         email_on_retry : {Absent},
         retries : Opt({PyInt(3), PyStr("3"), PyStr("abc"), PyNone})]}

RawBodies ==
    {RawBodyOther("none"), RawBodyOther("str")} \cup
    {RawBody(si, da) :
        si \in Opt({PyStr("@daily"), PyStr("daily")}),
        da \in Opt(RawDefaultArgs)}

\* A body that structures into a valid Dag, for mappings with two keys.
GoodBody ==
    RawBody(Some(PyStr("@daily")),
            Some(RawMap([NoEntries EXCEPT
                            !.owner = Some(PyStr("a@b.com")),
                            !.start_date = Some(PyStr("2020-01-01"))])))

TopLevelKeys == {"bqetl_a", "etl_a"}

\* Raw mappings with no key, one key and two keys.
RawMappings ==
    {<<>>} \cup
    {[k \in {key} |-> b] : key \in TopLevelKeys, b \in RawBodies} \cup
    [TopLevelKeys -> {GoodBody, RawBodyOther("none")}]

InitConfig ==
    /\ heap = <<(<<>>)>>
    /\ dags = [d \in DagIds |-> <<>>]
    /\ deps = [t \in Tasks |-> 0]
    /\ lastOp = NoOp
    /\ lastRender = <<>>
    /\ \/ \E args \in DirectArgs :
            cfgOp = [NoCfg EXCEPT !.phase = "call",
                                  !.call = "DagDefaultArgs", !.args = args]
       \/ \E d \in RawMappings :
            cfgOp = [NoCfg EXCEPT !.phase = "call", !.call = "from_dict",
                                  !.d = d]

CallDagDefaultArgs ==
    /\ cfgOp.phase = "call"
    /\ cfgOp.call = "DagDefaultArgs"
    /\ LET r == DagDefaultArgs(cfgOp.args)
       IN  cfgOp' = [cfgOp EXCEPT !.phase = "done",
                                  !.res = [NoRes EXCEPT !.exc = r.exc,
                                                        !.field = r.field,
                                                        !.obj = r.obj]]
    /\ UNCHANGED <<heap, dags, deps, lastOp, lastRender>>

CallFromDict ==
    /\ cfgOp.phase = "call"
    /\ cfgOp.call = "from_dict"
    /\ LET r == from_dict(cfgOp.d, heap[DefaultList])
       IN  cfgOp' = [cfgOp EXCEPT !.phase = "done",
                                  !.res = [NoRes EXCEPT !.exc = r.exc,
                                                        !.cause = r.cause,
                                                        !.tried = r.tried,
                                                        !.dag = r.dag]]
    /\ UNCHANGED <<heap, dags, deps, lastOp, lastRender>>

NextConfig == CallDagDefaultArgs \/ CallFromDict

SpecConfig == InitConfig /\ [][NextConfig]_vars

(***************************************************************************)
(* Properties of construction from configuration.                          *)
(***************************************************************************)
DoneDirect == cfgOp.phase = "done" /\ cfgOp.call = "DagDefaultArgs"
DoneFromDict == cfgOp.phase = "done" /\ cfgOp.call = "from_dict"

\* C4: from_dict raises DagParseException for every raw mapping whose number
\* of top-level keys is not one, before any structuring is attempted, and
\* produces no Dag.
C4_KeyCountChecked ==
    (DoneFromDict /\ Cardinality(DOMAIN cfgOp.d) # 1) =>
        /\ cfgOp.res.exc = "DagParseException"
        /\ ~cfgOp.res.tried
        /\ cfgOp.res.cause = ""
        /\ cfgOp.res.dag = NoDag

\* from_dict has run on a mapping with two top-level keys, the body of one
\* of which would structure into a valid Dag.
C4_Witness ==
    /\ DoneFromDict
    /\ Cardinality(DOMAIN cfgOp.d) = 2
    /\ \E k \in DOMAIN cfgOp.d : cfgOp.d[k] = GoodBody

\* The Python type a raw value of the given kind must have for a field
\* annotated with the given type.
KindOfType(type) ==
    CASE type = "str" -> "str"
      [] type = "int" -> "int"
      [] type = "bool" -> "bool"
      [] type = "list_str" -> "list"

\* The raw default_args mapping has an entry of the wrong type.
WrongTypedEntry(m) ==
    \E f \in DOMAIN m :
        m[f] # Absent /\ m[f][1].kind # KindOfType(DefaultArgsTypes[f])

\* The body of the single entry does not have the shape of a Dag: it is no
\* mapping, a required field is missing, or a field has the wrong type.
StructuralMismatch(body) ==
    \/ body.kind # "map"
    \/ body.schedule_interval = Absent
    \/ body.schedule_interval # Absent
            /\ body.schedule_interval[1].kind # "str"
    \/ body.default_args = Absent
    \/ body.default_args # Absent /\
         LET da == body.default_args[1]
         IN  \/ da.kind # "map"
             \/ da.m.owner = Absent
             \/ WrongTypedEntry(da.m)

TheBody == cfgOp.d[CHOOSE k \in DOMAIN cfgOp.d : TRUE]

\* C5: for a raw mapping with one top-level key, every structural or type
\* mismatch of the body surfaces as DagParseException carrying its cause,
\* and no Dag is produced.
C5_MismatchIsParseError ==
    (/\ DoneFromDict
     /\ Cardinality(DOMAIN cfgOp.d) = 1
     /\ StructuralMismatch(TheBody))
    => /\ cfgOp.res.exc = "DagParseException"
       /\ cfgOp.res.cause # ""
       /\ cfgOp.res.dag = NoDag

\* The value the constructor uses for field f of the call at hand.
ArgOrDefault(f) ==
    IF cfgOp.args[f] = Absent THEN DefaultArgsDefaults[f]
    ELSE cfgOp.args[f][1]

OwnerInvalid ==
    cfgOp.args.owner # Absent /\ ~is_email(cfgOp.args.owner[1].s)
StartDateInvalid ==
    /\ cfgOp.args.start_date # Absent
    /\ cfgOp.args.start_date[1].kind # "none"
    /\ ~is_date_string(cfgOp.args.start_date[1].s)
EmailInvalid ==
    \E i \in DOMAIN ArgOrDefault("email").l :
        ~is_email(ArgOrDefault("email").l[i])
RetryDelayInvalid == ~is_timedelta_string(ArgOrDefault("retry_delay").s)
RetriesInvalid == ArgOrDefault("retries").n < 0

ConstructionFailed == cfgOp.res.exc # "" /\ cfgOp.res.obj = NoInstance

\* C7: DagDefaultArgs(...) fails, and hands no instance to the caller, when
\* any of owner, start_date, email, retry_delay or retries is invalid.
C7_EveryFieldValidated ==
    (DoneDirect /\ (\/ OwnerInvalid \/ StartDateInvalid \/ EmailInvalid
                    \/ RetryDelayInvalid \/ RetriesInvalid))
    => ConstructionFailed

\* C7 as amended: DagDefaultArgs(...) fails, and hands no instance to the
\* caller, when any of owner, start_date, email or retry_delay is invalid;
\* retries is not validated, so a construction whose other fields are valid
\* and whose required arguments are given succeeds whatever retries is.
C7_ValidatedFieldsChecked ==
    DoneDirect =>
        /\ (\/ OwnerInvalid \/ StartDateInvalid \/ EmailInvalid
            \/ RetryDelayInvalid) => ConstructionFailed
        /\ (/\ cfgOp.args.owner # Absent
            /\ cfgOp.args.start_date # Absent
            /\ ~OwnerInvalid /\ ~StartDateInvalid /\ ~EmailInvalid
            /\ ~RetryDelayInvalid)
           => /\ cfgOp.res.exc = ""
              /\ cfgOp.res.obj # NoInstance
              /\ cfgOp.res.obj[1].retries = ArgOrDefault("retries")

\* A construction refused because one entry of email is no address, every
\* other field being valid.
C7_Witness ==
    /\ DoneDirect
    /\ EmailInvalid
    /\ ~OwnerInvalid /\ ~StartDateInvalid /\ ~RetryDelayInvalid
    /\ cfgOp.args.owner # Absent /\ cfgOp.args.start_date # Absent
    /\ cfgOp.res.exc = "ValueError"
    /\ cfgOp.res.field = "email"

\* The default_args entries of a raw mapping are valid apart from
\* start_date, which is not given.
ValidWithoutStartDate(m) ==
    /\ m.start_date = Absent
    /\ m.owner = Some(PyStr("a@b.com"))
    /\ m.email \in {Absent, Some(PyList(<<"c@d.org">>))}
    /\ m.retry_delay = Absent
    /\ m.retries \in {Absent, Some(PyInt(3))}

FromDictWithoutStartDate ==
    /\ DoneFromDict
    /\ DOMAIN cfgOp.d = {"bqetl_a"}
    /\ TheBody.kind = "map"
    /\ TheBody.schedule_interval = Some(PyStr("@daily"))
    /\ TheBody.default_args # Absent
    /\ TheBody.default_args[1].kind = "map"
    /\ ValidWithoutStartDate(TheBody.default_args[1].m)

DirectWithoutStartDate ==
    /\ DoneDirect
    /\ cfgOp.args.start_date = Absent
    /\ cfgOp.args.owner # Absent
    /\ ~OwnerInvalid /\ ~EmailInvalid /\ ~RetryDelayInvalid

=============================================================================
